---- MODULE Spec2Model ----
(***************************************************************************)
(* AdBlockBaseService (brave_shields): the request arbiter                 *)
(* ShouldStartRequest, the tag toggles and the DAT-file hot reload.        *)
(*                                                                         *)
(* Threads: ShouldStartRequest, EnableTagOnIOThread and                    *)
(* UpdateAdBlockClient run on BrowserThread::IO, which runs one task at a  *)
(* time to completion.  EnableTag, GetDATFileData and OnGetDATFileData run *)
(* on the caller's sequence and only post to the IO thread.                *)
(*                                                                         *)
(* The two matching engines (adblock::Blocker, AdBlockClient) and the DAT  *)
(* loader are external: their answers are inputs chosen with \E.           *)
(***************************************************************************)
EXTENDS Integers, Sequences, FiniteSets, TLC

\* ---------------------------------------------------------------- bounds
NumData    == 2   \* distinct non-empty DAT buffers (0 is the empty buffer)
MaxQueue   == 2   \* tasks waiting on BrowserThread::IO
MaxIssued  == 2   \* EnableTag calls issued over a run

Tags == {"t1"}

\* ------------------------------------------------------- resource types
\* content::ResourceType, plus the invalid type of url_context.h and a
\* value outside the enumeration (the switch's default label).
ResourceTypes ==
  {"kMainFrame", "kSubFrame", "kStylesheet", "kScript", "kFavicon", "kImage",
   "kFontResource", "kSubResource", "kObject", "kMedia", "kXhr", "kPing",
   "kWorker", "kSharedWorker", "kPrefetch", "kServiceWorker", "kCspReport",
   "kPluginResource", "kNavigationPreload", "kInvalidResourceType",
   "unrecognized"}

\* A FilterOption value is the set of its flags; FONoFilterOption is {}.
FONoFilterOption == {}

ResourceTypeToFilterOption_FaviconUnmapped(resource_type) ==
  CASE resource_type = "kMainFrame"    -> {"FODocument"}
    [] resource_type = "kSubFrame"     -> {"FOSubdocument"}
    [] resource_type = "kStylesheet"   -> {"FOStylesheet"}
    [] resource_type = "kScript"       -> {"FOScript"}
    [] resource_type = "kImage"        -> {"FOImage"}
    [] resource_type = "kFontResource" -> {"FOFont"}
    [] resource_type = "kSubResource"  -> {"FOOther"}
    [] resource_type = "kObject"       -> {"FOObject"}
    [] resource_type = "kMedia"        -> {"FOMedia"}
    [] resource_type = "kXhr"          -> {"FOXmlHttpRequest"}
    [] resource_type = "kPing"         -> {"FOPing"}
    [] OTHER                           -> FONoFilterOption

ResourceTypeToFilterOption(resource_type) ==
  CASE resource_type = "kMainFrame"    -> {"FODocument"}
    [] resource_type = "kSubFrame"     -> {"FOSubdocument"}
    [] resource_type = "kStylesheet"   -> {"FOStylesheet"}
    [] resource_type = "kScript"       -> {"FOScript"}
    [] resource_type \in {"kFavicon", "kImage"} -> {"FOImage"}
    [] resource_type = "kFontResource" -> {"FOFont"}
    [] resource_type = "kSubResource"  -> {"FOOther"}
    [] resource_type = "kObject"       -> {"FOObject"}
    [] resource_type = "kMedia"        -> {"FOMedia"}
    [] resource_type = "kXhr"          -> {"FOXmlHttpRequest"}
    [] resource_type = "kPing"         -> {"FOPing"}
    [] OTHER                           -> FONoFilterOption

ResourceTypeToString(resource_type) ==
  CASE resource_type = "kMainFrame"    -> "main_frame"
    [] resource_type = "kSubFrame"     -> "sub_frame"
    [] resource_type = "kStylesheet"   -> "stylesheet"
    [] resource_type = "kScript"       -> "script"
    [] resource_type \in {"kFavicon", "kImage"} -> "image"
    [] resource_type = "kFontResource" -> "font"
    [] resource_type = "kSubResource"  -> "other"
    [] resource_type = "kObject"       -> "object"
    [] resource_type = "kMedia"        -> "media"
    [] resource_type = "kXhr"          -> "xhr"
    [] resource_type = "kPing"         -> "ping"
    [] OTHER                           -> ""

\* ------------------------------------------------ first / third party
\* Hosts of request URLs and of tabs.  For each host: its registrable
\* domain when private registries (github.io) count as registries, and when
\* only ICANN registries do.  An IP literal has no registrable domain.
Hosts == {"example.com", "ads.example.com", "tracker.net",
          "a.github.io", "b.github.io", "192.0.2.1"}

DomainAndRegistry(host, privateFilter) ==
  CASE host \in {"example.com", "ads.example.com"} -> "example.com"
    [] host = "tracker.net" -> "tracker.net"
    [] host \in {"a.github.io", "b.github.io"} ->
         IF privateFilter = "INCLUDE_PRIVATE_REGISTRIES" THEN host
                                                         ELSE "github.io"
    [] OTHER -> ""

\* url::Origin::CreateFromNormalizedTuple("https", tab_host, 80)
TabOrigin(tab_host) == [scheme |-> "https", host |-> tab_host, port |-> 80]

SameDomainOrHost(url_host, origin, privateFilter) ==
  \/ url_host = origin.host
  \/ /\ DomainAndRegistry(url_host, privateFilter) # ""
     /\ DomainAndRegistry(url_host, privateFilter)
          = DomainAndRegistry(origin.host, privateFilter)

PartyOption_ExcludePrivate(url_host, tab_host) ==
  IF SameDomainOrHost(url_host, TabOrigin(tab_host),
                      "EXCLUDE_PRIVATE_REGISTRIES")
    THEN {"FONotThirdParty"}
    ELSE {"FOThirdParty"}

\* lines 207-212: the flag or-ed into current_option
PartyOption(url_host, tab_host) ==
  IF SameDomainOrHost(url_host, TabOrigin(tab_host),
                      "INCLUDE_PRIVATE_REGISTRIES")
    THEN {"FONotThirdParty"}
    ELSE {"FOThirdParty"}

\* ------------------------------------------------------------- state
VARIABLES
  ad_block_client_,  \* Engine B: [origin, data, tags]
  buffer_,           \* the DAT buffer the active engine was built from
  ioQueue,           \* tasks posted to BrowserThread::IO, FIFO
  replyQueue,        \* the LoadDATFileData result awaiting OnGetDATFileData
  ev,                \* frame of the ShouldStartRequest call on the IO thread
  upd,               \* frame of the UpdateAdBlockClient call
  issued,            \* history: EnableTag calls in issue order
  nApplied,          \* history: number of EnableTagOnIOThread runs
  swapAt,            \* history: nApplied at the latest engine assignment
  lastLoad           \* history: outcome of the latest OnGetDATFileData

vars == <<ad_block_client_, buffer_, ioQueue, replyQueue, ev, upd,
          issued, nApplied, swapAt, lastLoad>>

serviceVars == <<ad_block_client_, buffer_, ioQueue, replyQueue, upd,
                 issued, nApplied, swapAt, lastLoad>>

NULL == [origin |-> "null", data |-> 0, tags |-> {}]

\* new AdBlockClient(): no rules, no tags, no buffer
NewAdBlockClient == [origin |-> "ctor", data |-> 0, tags |-> {}]

\* an AdBlockClient deserialized from buffer d (d = 0: from no data)
Deserialized(d) == [origin |-> "dat", data |-> d, tags |-> {}]

\* GetDATFileDataResult: (unique_ptr<AdBlockClient>, DATFileDataBuffer)
LoadResults ==
  UNION { { [first |-> NULL, second |-> d],
            [first |-> Deserialized(d), second |-> d] } : d \in 0..NumData }

IdleEv ==
  [pc |-> "idle", resource_type |-> "none", url_host |-> "none",
   tab_host |-> "none",
   did_match_exception |-> "null", cancel_request_explicitly |-> "null",
   init_did |-> "null", init_cancel |-> "null",
   current_option |-> {}, type_option |-> {}, type_string |-> "",
   a |-> "unasked", b |-> "unasked",
   matching_filter |-> "null", matching_exception_filter |-> "null",
   ret |-> "none", queries |-> <<>>,
   seen_client |-> NULL, seen_buffer |-> 0]

IdleUpd == [pc |-> "idle", ad_block_client |-> NULL, buffer |-> 0]

\* BrowserThread::IO runs one task at a time
IOThreadIdle == ev.pc = "idle" /\ upd.pc = "idle"

Init ==
  /\ ad_block_client_ = NewAdBlockClient
  /\ buffer_ = 0
  /\ ioQueue = <<>>
  /\ replyQueue = <<>>
  /\ ev = IdleEv
  /\ upd = IdleUpd
  /\ issued = <<>>
  /\ nApplied = 0
  /\ swapAt = 0
  /\ lastLoad = "none"

\* ------------------------------------------------- ShouldStartRequest
\* The caller's flags.  did_match_exception is written through without a
\* null test at line 228, so callers pass a variable; the caller may leave
\* cancel_request_explicitly out ("null").
DidInputs    == {"false", "true"}
CancelInputs == {"null", "false", "true"}

\* lines 196-199: entry, on the IO thread
ShouldStartRequest_Enter(types, urlHosts, tabHosts, dids, cancels) ==
  /\ IOThreadIdle
  /\ \E t \in types, u \in urlHosts, h \in tabHosts,
        d \in dids, c \in cancels :
       ev' = [IdleEv EXCEPT !.pc = "classify",
                            !.resource_type = t,
                            !.url_host = u,
                            !.tab_host = h,
                            !.did_match_exception = d,
                            !.cancel_request_explicitly = c,
                            !.init_did = d,
                            !.init_cancel = c]
  /\ UNCHANGED serviceVars

\* lines 200-212: resource-type flag, then the party flag
ShouldStartRequest_Classify ==
  /\ ev.pc = "classify"
  /\ ev' = [ev EXCEPT
              !.pc = "queryA",
              !.type_option = ResourceTypeToFilterOption(ev.resource_type),
              !.current_option =
                 ResourceTypeToFilterOption(ev.resource_type)
                   \cup PartyOption(ev.url_host, ev.tab_host)]
  /\ UNCHANGED serviceVars

EngineA_NoShortCircuit(matched) ==
  [ev EXCEPT !.pc = "queryB",
             !.type_string = ResourceTypeToString(ev.resource_type),
             !.a = IF matched THEN "match" ELSE "nomatch",
             !.queries = Append(ev.queries, "A")]

\* lines 214-219: the frame after ad_block_client2_->Matches answered
EngineA(matched) ==
  [ev EXCEPT !.pc = IF matched THEN "done" ELSE "queryB",
             !.type_string = ResourceTypeToString(ev.resource_type),
             !.a = IF matched THEN "match" ELSE "nomatch",
             !.ret = IF matched THEN "false" ELSE "none",
             !.queries = Append(ev.queries, "A")]

ShouldStartRequest_QueryA ==
  /\ ev.pc = "queryA"
  /\ \E matched \in BOOLEAN : ev' = EngineA(matched)
  /\ UNCHANGED serviceVars

\* What ad_block_client_->matches can hand back: its verdict, the matching
\* filter (none, one without FOExplicitCancel, one with it) and whether it
\* recorded a matching exception filter.
FilterAnswers == {"null", "plain", "FOExplicitCancel"}
ExceptionAnswers == {"null", "filter"}

EngineB_KeepException(matched, mf, mef) ==
  [ev EXCEPT
     !.pc = "done",
     !.b = IF matched THEN "match" ELSE "nomatch",
     !.matching_filter = mf,
     !.matching_exception_filter = mef,
     !.queries = Append(ev.queries, "B"),
     !.seen_client = ad_block_client_,
     !.seen_buffer = buffer_,
     !.cancel_request_explicitly =
        IF matched /\ mf # "null" /\ ev.cancel_request_explicitly # "null"
           /\ mf = "FOExplicitCancel"
          THEN "true" ELSE ev.cancel_request_explicitly,
     !.did_match_exception =
        IF ev.did_match_exception # "null"
          THEN (IF mef # "null" THEN "true" ELSE "false")
          ELSE ev.did_match_exception,
     !.ret = IF matched THEN "false" ELSE "true"]

EngineB_AlwaysCancel(matched, mf, mef) ==
  [ev EXCEPT
     !.pc = "done",
     !.b = IF matched THEN "match" ELSE "nomatch",
     !.matching_filter = mf,
     !.matching_exception_filter = mef,
     !.queries = Append(ev.queries, "B"),
     !.seen_client = ad_block_client_,
     !.seen_buffer = buffer_,
     !.cancel_request_explicitly =
        IF matched /\ ev.cancel_request_explicitly # "null"
          THEN "true" ELSE ev.cancel_request_explicitly,
     !.did_match_exception =
        IF matched THEN "false"
        ELSE IF ev.did_match_exception # "null"
          THEN (IF mef # "null" THEN "true" ELSE "false")
          ELSE ev.did_match_exception,
     !.ret = IF matched THEN "false" ELSE "true"]

EngineB_ExceptionIgnored(matched, mf, mef) ==
  [ev EXCEPT
     !.pc = "done",
     !.b = IF matched THEN "match" ELSE "nomatch",
     !.matching_filter = mf,
     !.matching_exception_filter = mef,
     !.queries = Append(ev.queries, "B"),
     !.seen_client = ad_block_client_,
     !.seen_buffer = buffer_,
     !.cancel_request_explicitly =
        IF matched /\ mf # "null" /\ ev.cancel_request_explicitly # "null"
           /\ mf = "FOExplicitCancel"
          THEN "true" ELSE ev.cancel_request_explicitly,
     !.did_match_exception =
        IF matched THEN "false" ELSE ev.did_match_exception,
     !.ret = IF matched THEN "false" ELSE "true"]

\* lines 220-241: the frame after ad_block_client_->matches answered
EngineB(matched, mf, mef) ==
  [ev EXCEPT
     !.pc = "done",
     !.b = IF matched THEN "match" ELSE "nomatch",
     !.matching_filter = mf,
     !.matching_exception_filter = mef,
     !.queries = Append(ev.queries, "B"),
     !.seen_client = ad_block_client_,
     !.seen_buffer = buffer_,
     \* lines 223-226
     !.cancel_request_explicitly =
        IF matched /\ mf # "null" /\ ev.cancel_request_explicitly # "null"
           /\ mf = "FOExplicitCancel"
          THEN "true" ELSE ev.cancel_request_explicitly,
     \* line 228 on a block, lines 236-238 otherwise
     !.did_match_exception =
        IF matched THEN "false"
        ELSE IF ev.did_match_exception # "null"
          THEN (IF mef # "null" THEN "true" ELSE "false")
          ELSE ev.did_match_exception,
     !.ret = IF matched THEN "false" ELSE "true"]

ShouldStartRequest_QueryB(filters, exceptions) ==
  /\ ev.pc = "queryB"
  /\ \E matched \in BOOLEAN, mf \in filters, mef \in exceptions :
       ev' = EngineB(matched, mf, mef)
  /\ UNCHANGED serviceVars

\* the call returns and the IO thread is free again
ShouldStartRequest_Return ==
  /\ ev.pc = "done"
  /\ ev' = IdleEv
  /\ UNCHANGED serviceVars

\* ---------------------------------------- specification: one evaluation
NextEval ==
  \/ ShouldStartRequest_Enter(ResourceTypes, Hosts, Hosts,
                              DidInputs, CancelInputs)
  \/ ShouldStartRequest_Classify
  \/ ShouldStartRequest_QueryA
  \/ ShouldStartRequest_QueryB(FilterAnswers, ExceptionAnswers)
  \/ ShouldStartRequest_Return

SpecEval == Init /\ [][NextEval]_vars

\* ------------------------------------------------------------ EnableTag
EnableTagTask(tag, enabled) ==
  [type |-> "EnableTagOnIOThread", tag |-> tag, enabled |-> enabled,
   ad_block_client |-> NULL, buffer |-> 0]

UpdateTask(client, buffer) ==
  [type |-> "UpdateAdBlockClient", tag |-> "", enabled |-> FALSE,
   ad_block_client |-> client, buffer |-> buffer]

\* lines 243-250: post EnableTagOnIOThread(tag, enabled) to the IO thread
EnableTag(tag, enabled) ==
  /\ Len(ioQueue) < MaxQueue
  /\ Len(issued) < MaxIssued
  /\ ioQueue' = Append(ioQueue, EnableTagTask(tag, enabled))
  /\ issued' = Append(issued, [tag |-> tag, enabled |-> enabled])
  /\ UNCHANGED <<ad_block_client_, buffer_, replyQueue, ev, upd,
                 nApplied, swapAt, lastLoad>>

\* lines 255-259: addTag / removeTag on an engine
TagApplied(client, tag, enabled) ==
  [client EXCEPT !.tags = IF enabled THEN @ \cup {tag} ELSE @ \ {tag}]

\* lines 252-260: the posted task runs, on the engine active now
EnableTagOnIOThread ==
  /\ IOThreadIdle
  /\ ioQueue # <<>>
  /\ Head(ioQueue).type = "EnableTagOnIOThread"
  /\ ad_block_client_' =
       TagApplied(ad_block_client_, Head(ioQueue).tag, Head(ioQueue).enabled)
  /\ ioQueue' = Tail(ioQueue)
  /\ nApplied' = nApplied + 1
  /\ UNCHANGED <<buffer_, replyQueue, ev, upd, issued, swapAt, lastLoad>>

\* ------------------------------------------------------------ hot reload
\* lines 262-271: LoadDATFileData runs on the task runner; its result is
\* queued for the reply OnGetDATFileData.  One load is outstanding at a
\* time.
GetDATFileData ==
  /\ replyQueue = <<>>
  /\ \E result \in LoadResults : replyQueue' = Append(replyQueue, result)
  /\ UNCHANGED <<ad_block_client_, buffer_, ioQueue, ev, upd,
                 issued, nApplied, swapAt, lastLoad>>

LoadFailed_NullOnly(result) == result.first = NULL

\* lines 274-281: the two early returns
LoadFailed(result) == result.second = 0 \/ result.first = NULL

OnGetDATFileData_CallsDirectly ==
  /\ replyQueue # <<>>
  /\ replyQueue' = Tail(replyQueue)
  /\ IF LoadFailed(Head(replyQueue))
       THEN /\ lastLoad' = "skipped"
            /\ UNCHANGED upd
       ELSE /\ upd.pc = "idle"
            /\ upd' = [pc |-> "l295",
                       ad_block_client |-> Head(replyQueue).first,
                       buffer |-> Head(replyQueue).second]
            /\ lastLoad' = "posted"
  /\ UNCHANGED <<ad_block_client_, buffer_, ioQueue, ev,
                 issued, nApplied, swapAt>>

\* lines 273-289: the reply; posts UpdateAdBlockClient to the IO thread
OnGetDATFileData ==
  /\ replyQueue # <<>>
  /\ replyQueue' = Tail(replyQueue)
  /\ IF LoadFailed(Head(replyQueue))
       THEN /\ lastLoad' = "skipped"
            /\ UNCHANGED ioQueue
       ELSE /\ Len(ioQueue) < MaxQueue
            /\ ioQueue' = Append(ioQueue,
                 UpdateTask(Head(replyQueue).first, Head(replyQueue).second))
            /\ lastLoad' = "posted"
  /\ UNCHANGED <<ad_block_client_, buffer_, ev, upd,
                 issued, nApplied, swapAt>>

\* lines 291-294: the posted task starts on the IO thread
UpdateAdBlockClient_Enter ==
  /\ IOThreadIdle
  /\ ioQueue # <<>>
  /\ Head(ioQueue).type = "UpdateAdBlockClient"
  /\ upd' = [pc |-> "l295",
             ad_block_client |-> Head(ioQueue).ad_block_client,
             buffer |-> Head(ioQueue).buffer]
  /\ ioQueue' = Tail(ioQueue)
  /\ UNCHANGED <<ad_block_client_, buffer_, replyQueue, ev,
                 issued, nApplied, swapAt, lastLoad>>

MovedClient_KeepTags(loaded, current) ==
  [loaded EXCEPT !.tags = current.tags]

\* line 295: what ad_block_client_ holds after the move assignment
MovedClient(loaded, current) == loaded

\* line 295
UpdateAdBlockClient_Client ==
  /\ upd.pc = "l295"
  /\ ad_block_client_' = MovedClient(upd.ad_block_client, ad_block_client_)
  /\ swapAt' = nApplied
  /\ upd' = [upd EXCEPT !.pc = "l296"]
  /\ UNCHANGED <<buffer_, ioQueue, replyQueue, ev, issued, nApplied, lastLoad>>

\* line 296, and the task ends
UpdateAdBlockClient_Buffer ==
  /\ upd.pc = "l296"
  /\ buffer_' = upd.buffer
  /\ upd' = IdleUpd
  /\ UNCHANGED <<ad_block_client_, ioQueue, replyQueue, ev,
                 issued, nApplied, swapAt, lastLoad>>

\* ------------------------------------------- specification: the service
\* requests evaluated while the service reloads and toggles tags
ReloadTypes    == {"kScript"}
ReloadUrlHosts == {"ads.example.com"}
ReloadTabHosts == {"example.com"}
ReloadDids     == {"false"}
ReloadCancels  == {"false"}
ReloadFilters    == {"plain"}
ReloadExceptions == {"null"}

Next ==
  \/ ShouldStartRequest_Enter(ReloadTypes, ReloadUrlHosts, ReloadTabHosts,
                              ReloadDids, ReloadCancels)
  \/ ShouldStartRequest_Classify
  \/ ShouldStartRequest_QueryA
  \/ ShouldStartRequest_QueryB(ReloadFilters, ReloadExceptions)
  \/ ShouldStartRequest_Return
  \/ \E tag \in Tags, enabled \in BOOLEAN : EnableTag(tag, enabled)
  \/ EnableTagOnIOThread
  \/ GetDATFileData
  \/ OnGetDATFileData
  \/ UpdateAdBlockClient_Enter
  \/ UpdateAdBlockClient_Client
  \/ UpdateAdBlockClient_Buffer

Spec == Init /\ [][Next]_vars

\* ================================================================ claims
Returned == ev.pc = "done"

\* C1: whenever Engine A reports a match, ShouldStartRequest returns with
\* allow = false and matchedException = false, for any initial values of
\* the caller's flags.
C1_EngineAMatchBlocks ==
  (Returned /\ ev.a = "match")
    => (ev.ret = "false" /\ ev.did_match_exception = "false")

\* C2: Engine A no match, Engine B block by a filter carrying
\* FOExplicitCancel: allow = false, matchedException = false, and
\* explicitCancel = true in the flag of every caller that passed one.
C2_ExplicitCancelBlock ==
  (Returned /\ ev.a = "nomatch" /\ ev.b = "match"
            /\ ev.matching_filter = "FOExplicitCancel")
    => /\ ev.ret = "false"
       /\ ev.did_match_exception = "false"
       /\ (ev.init_cancel # "null" => ev.cancel_request_explicitly = "true")
       /\ (ev.init_cancel = "null" => ev.cancel_request_explicitly = "null")

C2_Witness ==
  /\ Returned /\ ev.a = "nomatch" /\ ev.b = "match"
  /\ ev.matching_filter = "FOExplicitCancel"
  /\ ev.matching_exception_filter = "filter"
  /\ ev.init_did = "true" /\ ev.init_cancel = "false"
  /\ ev.did_match_exception = "false"
  /\ ev.cancel_request_explicitly = "true"

\* C3: neither engine blocks: allow = true, and matchedException is true
\* exactly when Engine B recorded a matching exception filter.
C3_AllowWithException ==
  (Returned /\ ev.a = "nomatch" /\ ev.b = "nomatch")
    => /\ ev.ret = "true"
       /\ ev.did_match_exception \in {"true", "false"}
       /\ (ev.did_match_exception = "true"
             <=> ev.matching_exception_filter = "filter")

C3_Witness ==
  /\ Returned /\ ev.a = "nomatch" /\ ev.b = "nomatch"
  /\ ev.matching_exception_filter = "filter"
  /\ ev.init_did = "false"
  /\ ev.did_match_exception = "true"
  /\ ev.ret = "true"

\* C4 as stated: Engine A no match, Engine B block by a filter without
\* FOExplicitCancel: allow = false and explicitCancel = false; and
\* explicitCancel is true in a result only when the blocking Engine B
\* filter carries the flag.
C4_Original ==
  /\ (Returned /\ ev.a = "nomatch" /\ ev.b = "match"
               /\ ev.matching_filter # "FOExplicitCancel")
       => (ev.ret = "false" /\ ev.cancel_request_explicitly # "true")
  /\ (Returned /\ ev.cancel_request_explicitly = "true")
       => (ev.b = "match" /\ ev.matching_filter = "FOExplicitCancel")

\* C4 amended: in that case allow = false and explicitCancel is left at the
\* value the caller passed in; ShouldStartRequest changes explicitCancel
\* only when the blocking Engine B filter carries the flag, and then to
\* true.
C4_CancelOnlySet ==
  /\ (Returned /\ ev.a = "nomatch" /\ ev.b = "match"
               /\ ev.matching_filter # "FOExplicitCancel")
       => (ev.ret = "false" /\ ev.cancel_request_explicitly = ev.init_cancel)
  /\ (Returned /\ ev.cancel_request_explicitly # ev.init_cancel)
       => /\ ev.b = "match" /\ ev.matching_filter = "FOExplicitCancel"
          /\ ev.cancel_request_explicitly = "true"

C4_Witness ==
  /\ Returned /\ ev.a = "nomatch" /\ ev.b = "match"
  /\ ev.matching_filter = "plain"
  /\ ev.init_cancel = "true"
  /\ ev.cancel_request_explicitly = "true"
  /\ ev.ret = "false"

\* C7: the option handed to Engine B carries exactly one of FOThirdParty /
\* FONotThirdParty: FONotThirdParty when the URL and the tab host have the
\* same registrable domain (private registries counted) or the same host,
\* FOThirdParty otherwise.
Classified == ev.pc \in {"queryA", "queryB", "done"}

SameSite(u, t) ==
  \/ u = t
  \/ /\ DomainAndRegistry(u, "INCLUDE_PRIVATE_REGISTRIES") # ""
     /\ DomainAndRegistry(u, "INCLUDE_PRIVATE_REGISTRIES")
          = DomainAndRegistry(t, "INCLUDE_PRIVATE_REGISTRIES")

C7_ExactlyOnePartyFlag ==
  Classified =>
    /\ Cardinality(ev.current_option
                     \cap {"FOThirdParty", "FONotThirdParty"}) = 1
    /\ ("FONotThirdParty" \in ev.current_option
          <=> SameSite(ev.url_host, ev.tab_host))

C7_Witness ==
  /\ ev.b # "unasked"
  /\ ev.url_host = "a.github.io" /\ ev.tab_host = "b.github.io"
  /\ "FOThirdParty" \in ev.current_option
  /\ "FONotThirdParty" \notin ev.current_option

\* C8: every resource type maps to one resource-type flag or to
\* FONoFilterOption; favicon and image map to FOImage; worker,
\* shared-worker, prefetch, service-worker, CSP-report, plugin-resource,
\* navigation-preload, invalid and unrecognized values map to
\* FONoFilterOption.
TypeFlags ==
  {"FODocument", "FOSubdocument", "FOStylesheet", "FOScript", "FOImage",
   "FOFont", "FOOther", "FOObject", "FOMedia", "FOXmlHttpRequest", "FOPing"}

ResidualTypes ==
  {"kWorker", "kSharedWorker", "kPrefetch", "kServiceWorker", "kCspReport",
   "kPluginResource", "kNavigationPreload", "kInvalidResourceType",
   "unrecognized"}

C8_TypeMappingTotal ==
  Classified =>
    /\ ev.type_option \subseteq TypeFlags
    /\ ev.current_option \cap TypeFlags = ev.type_option
    /\ IF ev.resource_type \in ResidualTypes
         THEN ev.type_option = FONoFilterOption
         ELSE Cardinality(ev.type_option) = 1
    /\ (ev.resource_type \in {"kFavicon", "kImage"}
          => ev.type_option = {"FOImage"})

C8_Witness ==
  /\ Returned
  /\ ev.resource_type = "kFavicon"
  /\ ev.type_option = {"FOImage"}

\* C9: Engine A is queried first; Engine B is queried only after Engine A
\* answered "no match".
C9_EngineAFirst ==
  /\ ev.queries \in {<<>>, <<"A">>, <<"A", "B">>}
  /\ (ev.b # "unasked" => ev.a = "nomatch")
  /\ (ev.a = "match" => (ev.pc = "done" /\ ev.queries = <<"A">>))

C9_Witness ==
  /\ Returned /\ ev.a = "match" /\ ev.b = "unasked"
  /\ ev.queries = <<"A">>

\* ------------------------------------------------- claims on the service
EngineIsEmpty(client) == client.data = 0

\* a step of OnGetDATFileData on a result with an empty buffer or a null
\* engine
FailedLoadStep ==
  /\ replyQueue # <<>>
  /\ Len(replyQueue') < Len(replyQueue)
  /\ (Head(replyQueue).second = 0 \/ Head(replyQueue).first = NULL)

FailedLoadSkipsSwap ==
  FailedLoadStep => UNCHANGED <<ad_block_client_, buffer_, ioQueue, upd>>

\* C5 as stated (its part on reachable states): from construction onward the
\* active Engine B is never an empty (or null) engine.
C5_Original == ad_block_client_ # NULL /\ ~EngineIsEmpty(ad_block_client_)

\* C5 amended: a failed load skips the swap and leaves engine and buffer
\* unchanged; the active Engine B is the empty engine the constructor made
\* until the first successful load is installed, and from then on always an
\* engine deserialized from a non-empty buffer: no load installs an empty
\* or null engine.
ActiveEngineOK ==
  /\ ad_block_client_ # NULL
  /\ (ad_block_client_.origin = "ctor" => buffer_ = 0)
  /\ (ad_block_client_.origin = "dat" => ~EngineIsEmpty(ad_block_client_))
  /\ \A i \in 1..Len(ioQueue) :
       ioQueue[i].type = "UpdateAdBlockClient" =>
         /\ ioQueue[i].ad_block_client # NULL
         /\ ~EngineIsEmpty(ioQueue[i].ad_block_client)
         /\ ioQueue[i].buffer # 0

C5_FailedLoadKeepsEngine ==
  /\ []ActiveEngineOK
  /\ [][FailedLoadSkipsSwap]_vars
  /\ [][ad_block_client_.origin = "dat" => ad_block_client_'.origin = "dat"]_vars

C5_Witness ==
  /\ lastLoad = "skipped"
  /\ ad_block_client_.origin = "dat"
  /\ buffer_ = ad_block_client_.data
  /\ ioQueue = <<>>
  /\ upd.pc = "idle"

\* C6: no ShouldStartRequest call is in progress while UpdateAdBlockClient
\* is, and every call that queried Engine B saw an engine together with the
\* buffer it was built from.
C6_NoEvaluationDuringSwap ==
  /\ ~(ev.pc # "idle" /\ upd.pc # "idle")
  /\ (ev.b # "unasked" => ev.seen_client.data = ev.seen_buffer)
  /\ (ev.pc # "idle" => ad_block_client_.data = buffer_)

C6_Witness ==
  /\ Returned
  /\ ev.b # "unasked"
  /\ ev.seen_client.origin = "dat"
  /\ ev.seen_buffer = ev.seen_client.data
  /\ ioQueue # <<>>
  /\ Head(ioQueue).type = "UpdateAdBlockClient"
  /\ Head(ioQueue).buffer # ev.seen_buffer

\* C10: EnableTag calls take effect on the IO thread in issue order, each
\* on the engine active when its task runs; UpdateAdBlockClient installs
\* the loaded instance as it is, so after a swap the active engine has the
\* loaded instance's tags plus only the toggles run since.
RECURSIVE ApplyTags(_, _)
ApplyTags(calls, tags) ==
  IF calls = <<>> THEN tags
  ELSE ApplyTags(Tail(calls),
                 IF Head(calls).enabled THEN tags \cup {Head(calls).tag}
                                        ELSE tags \ {Head(calls).tag})

IsEnableTagTask(task) == task.type = "EnableTagOnIOThread"

RECURSIVE AsCalls(_)
AsCalls(tasks) ==
  IF tasks = <<>> THEN <<>>
  ELSE <<[tag |-> Head(tasks).tag, enabled |-> Head(tasks).enabled]>>
         \o AsCalls(Tail(tasks))

TagsInIssueOrder ==
  /\ nApplied <= Len(issued)
  /\ swapAt <= nApplied
  /\ AsCalls(SelectSeq(ioQueue, IsEnableTagTask))
       = SubSeq(issued, nApplied + 1, Len(issued))
  /\ ad_block_client_.tags
       = ApplyTags(SubSeq(issued, swapAt + 1, nApplied), {})

SwapInstallsAsLoaded ==
  (upd.pc = "l295" /\ upd'.pc = "l296")
    => ad_block_client_' = upd.ad_block_client

C10_TagsFollowActiveEngine ==
  /\ []TagsInIssueOrder
  /\ [][SwapInstallsAsLoaded]_vars

C10_Witness ==
  /\ swapAt >= 1
  /\ issued[swapAt].enabled
  /\ nApplied = swapAt
  /\ ad_block_client_.origin = "dat"
  /\ ad_block_client_.tags = {}
  /\ upd.pc = "idle"

====
